---- MODULE Spec2Model ----
(***************************************************************************)
(* A model of eoreader's raster helpers (eoreader/utils.py: read, write,    *)
(* stack_dict), of the Landsat-3 product classification                     *)
(* (eoreader/products/optical/l3_product.py) and of the DEM registration    *)
(* of the end-to-end script (CI/SCRIPTS_SNAP/...: set_dem).                 *)
(*                                                                         *)
(* Pixel values are fixed-point numbers: a real value x is held as the     *)
(* integer x * scale, so 0.5 is 5000 and -0.1 is -1000.  NaN is a cell of   *)
(* its own.                                                                *)
(***************************************************************************)
EXTENDS Integers, Sequences, FiniteSets, TLC

VARIABLES
    sd_in,      \* stack_dict: the arguments of the call (or "idle")
    sd_out,     \* stack_dict: what the call returned (or "none")
    rd_in,      \* read: the arguments of the call and the file they name
    rd_out,     \* read: what the call returned or raised
    env_use_dask,   \* the USE_DASK environment variable ("unset" or its value)
    dask_installed, \* whether dask and distributed can be imported
    client,     \* whether a distributed client exists (get_client() succeeds)
    rio_lock,   \* the holder of the distributed lock named "rio", or "free"
    w_pc,       \* write: where each concurrent call stands
    w_xds,      \* write: the array of each call (its long_name, its band count)
    w_lock,     \* write: the local variable lock of each call
    w_client,   \* write: whether get_client() found a client in each call
    w_prev,     \* write: the local variable previous_long_name of each call
    r_pc,       \* read: where the concurrent reader stands
    l3_name,    \* L3Product: self.name, as its characters
    l3_product_type,    \* L3Product: self.product_type
    l3_band_names,      \* L3Product: self.band_names, band -> physical band
    l3_typed,   \* L3Product: how the last get_product_type() ended
    l3_last,    \* L3Product: the last has_band/load/stack request and its outcome
    env_DEM_PATH,           \* os.environ[DEM_PATH]
    env_TEST_USING_S3_DB,   \* os.environ[TEST_USING_S3_DB]
    env_S3_DB_URL_ROOT,     \* os.environ[S3_DB_URL_ROOT]
    env_SAR_DEF_RES,        \* os.environ[SAR_DEF_RES]
    fs_files,   \* the files that exist on disk
    db_dir_ok,  \* whether the local reference store can be found
    dem_last    \* set_dem: the last call, what it saw and how it ended

stack_vars == <<sd_in, sd_out>>
read_vars == <<rd_in, rd_out>>
write_vars == <<env_use_dask, dask_installed, client, rio_lock,
                w_pc, w_xds, w_lock, w_client, w_prev, r_pc>>
l3_vars == <<l3_name, l3_product_type, l3_band_names, l3_typed, l3_last>>
dem_vars == <<env_DEM_PATH, env_TEST_USING_S3_DB, env_S3_DB_URL_ROOT, env_SAR_DEF_RES,
              fs_files, db_dir_ok, dem_last>>
vars == <<sd_in, sd_out, rd_in, rd_out,
          env_use_dask, dask_installed, client, rio_lock,
          w_pc, w_xds, w_lock, w_client, w_prev, r_pc,
          l3_name, l3_product_type, l3_band_names, l3_typed, l3_last,
          env_DEM_PATH, env_TEST_USING_S3_DB, env_S3_DB_URL_ROOT, env_SAR_DEF_RES,
          fs_files, db_dir_ok, dem_last>>

(***************************************************************************)
(* Bounds of the model                                                     *)
(***************************************************************************)
NbPixels == 1   \* pixels of each band (all bands of a dataset share a grid)
MaxRasterBands == 3     \* bands of the largest raster file read
MaxNameLen == 3         \* characters of the longest product name

(***************************************************************************)
(* stack_dict                                                              *)
(***************************************************************************)
scale == 10000
round_nb == 1000
UINT16_NODATA == 65535
quantile_den == 1000    \* quantile(0.001): 1 / 1000

\* -0.1 in fixed point
round_min == -(scale \div 10)

NaN == [nan |-> TRUE, v |-> 0]
Val(x) == [nan |-> FALSE, v |-> x]

\* The logical bands of the model and their kinds.
RED == "RED"
SWIR_2 == "SWIR_2"
NDVI == "NDVI"
SLOPE == "SLOPE"
HILLSHADE == "HILLSHADE"
CLOUDS == "CLOUDS"
AllBands == {RED, NDVI, SLOPE}

is_sat_band(band) == band \in {RED, SWIR_2}
is_index(band) == band \in {NDVI}

\* Pixel values a band can hold: missing, -0.2, -0.1004, -0.0001, 0.5 and 7.0
\* (a digital number, above UINT16_NODATA / scale).
PixelValues == {NaN, Val(-2000), Val(-1004), Val(-1), Val(5000), Val(70000)}
NodataValues == {65535, -9999}

Pixels == 1..NbPixels

\* The caller's band list: one band, or two different bands in either order.
BandLists ==
    { <<a>> : a \in AllBands } \cup { s \in AllBands \X AllBands : s[1] # s[2] }

\* The orders in which n bands can have been inserted into the dataset.
LoadOrders(n) == { p \in [1..n -> 1..n] : \A i, j \in 1..n : i # j => p[i] # p[j] }

\* A dataset: its variables in insertion order, each a band and its pixels.
Datasets(bands) ==
    { [i \in 1..Len(bands) |-> [band |-> bands[p[i]], data |-> d[i]]]
      : p \in LoadOrders(Len(bands)), d \in [1..Len(bands) -> [Pixels -> PixelValues]] }

RECURSIVE AllCells(_)
AllCells(xds) ==
    IF xds = <<>> THEN <<>> ELSE Head(xds).data \o AllCells(Tail(xds))

NotNan(c) == ~c.nan
CellLess(a, b) == a.v < b.v

\* float(band_xds.to_array().quantile(0.001)): the linear-interpolation quantile
\* of the non-missing values of all bands, as the numerator of a fraction over
\* quantile_den (so that the interpolation is exact); NaN when every value is missing.
Quantile(xds) ==
    LET s == SortSeq(SelectSeq(AllCells(xds), NotNan), CellLess)
        n == Len(s)
        lo == (n - 1) \div quantile_den
        fr == (n - 1) % quantile_den
    IN  IF n = 0 THEN [nan |-> TRUE, num |-> 0]
        ELSE IF fr = 0 THEN [nan |-> FALSE, num |-> s[lo + 1].v * quantile_den]
        ELSE [nan |-> FALSE,
              num |-> s[lo + 1].v * quantile_den + fr * (s[lo + 2].v - s[lo + 1].v)]

\* np.round(num / den): to the nearest integer, halves to the even one.
RoundHalfEven(num, den) ==
    LET q == num \div den
        r == num % den
    IN  IF 2 * r < den THEN q
        ELSE IF 2 * r > den THEN q + 1
        ELSE IF q % 2 = 0 THEN q ELSE q + 1

\* A comparison of the estimate itself with round_min, without the rounding.
TooNegativeUnrounded(stack_min) ==
    ~stack_min.nan /\ stack_min.num < round_min * quantile_den

\* np.round(stack_min * round_nb) / round_nb < round_min, where stack_min is
\* num / (scale * quantile_den), so stack_min * round_nb is
\* num / ((scale * quantile_den) / round_nb); a NaN compares false.
TooNegative(stack_min) ==
    /\ ~stack_min.nan
    /\ RoundHalfEven(stack_min.num, (scale * quantile_den) \div round_nb) * scale
           < round_min * round_nb

\* stack_min < 0
IsNegative(stack_min) == ~stack_min.nan /\ stack_min.num < 0

ClipCell(c) == IF ~c.nan /\ c.v < 0 THEN Val(0) ELSE c

\* band_xds.clip(min=0, max=None, keep_attrs=True): every variable of the dataset
Clip(xds) ==
    [i \in DOMAIN xds |->
        [xds[i] EXCEPT !.data = [k \in DOMAIN xds[i].data |-> ClipCell(xds[i].data[k])]]]

TimesCell(c, f) == IF c.nan THEN c ELSE Val(c.v * f)

\* np.nanmax(band_xda) > UINT16_NODATA / scale (false when every value is missing)
AboveReflectance(data) ==
    \E k \in DOMAIN data : ~data[k].nan /\ data[k].v > UINT16_NODATA

\* The loop variable band_xda at the end of the loop body.
ScaledBand(e) ==
    IF (is_sat_band(e.band) \/ is_index(e.band)) /\ ~AboveReflectance(e.data)
    THEN [k \in DOMAIN e.data |-> TimesCell(e.data[k], scale)]
    ELSE e.data

\* What a loop storing every band's product back into the dataset would leave.
ScaleBandsStoreAll(xds) ==
    [i \in DOMAIN xds |->
        [xds[i] EXCEPT !.data = [k \in DOMAIN xds[i].data |-> TimesCell(xds[i].data[k], scale)]]]

\* for band, band_xda in band_xds.items(): ... band_xda = band_xda * scale
\* The product is bound to the loop variable only: the dataset keeps its values.
ScaleBands(xds) ==
    LET band_xda == [i \in DOMAIN xds |-> ScaledBand(xds[i])]
    IN  xds

FillCell(c, nodata) == IF c.nan THEN Val(nodata * scale) ELSE c

\* band_xds.fillna(nodata)
FillNa(xds, nodata) ==
    [i \in DOMAIN xds |->
        [xds[i] EXCEPT !.data = [k \in DOMAIN xds[i].data |-> FillCell(xds[i].data[k], nodata)]]]

\* band_xds.to_stacked_array(new_dim="bands", ...): one layer per variable of the
\* dataset, in the dataset's own (insertion) order.
ToStackedArray(xds) == xds

stack_dict(bands, band_xds, save_as_int, nodata) ==
    LET stack_min == Quantile(band_xds)
        fallback == save_as_int /\ TooNegative(stack_min)
        as_int == save_as_int /\ ~fallback
        clip == as_int /\ IsNegative(stack_min)
        clipped == IF clip THEN Clip(band_xds) ELSE band_xds
        scaled == IF as_int THEN ScaleBands(clipped) ELSE clipped
        filled == IF as_int THEN FillNa(scaled, nodata) ELSE scaled
    IN  [stack |-> ToStackedArray(filled),
         dtype |-> IF as_int THEN "uint16" ELSE "float32",
         stack_min |-> stack_min,
         warnings |-> (IF fallback THEN {"keep_float32"} ELSE {})
                          \cup (IF clip THEN {"clip"} ELSE {}),
         raised |-> FALSE]

NoCall == [bands |-> <<>>, band_xds |-> <<>>, save_as_int |-> FALSE, nodata |-> 0]
NoResult == [stack |-> <<>>, dtype |-> "none", stack_min |-> [nan |-> TRUE, num |-> 0],
             warnings |-> {}, raised |-> FALSE]

StackInputs ==
    /\ \E bands \in BandLists, save_as_int \in BOOLEAN, nodata \in NodataValues :
         \E band_xds \in Datasets(bands) :
            sd_in = [bands |-> bands, band_xds |-> band_xds,
                     save_as_int |-> save_as_int, nodata |-> nodata]
    /\ sd_out = NoResult

StackDict ==
    /\ sd_in # NoCall
    /\ sd_out = NoResult
    /\ sd_out' = stack_dict(sd_in.bands, sd_in.band_xds, sd_in.save_as_int, sd_in.nodata)
    /\ UNCHANGED sd_in

(***************************************************************************)
(* read                                                                    *)
(***************************************************************************)
\* File names, as the characters of str(path).
FileNames ==
    { <<"a", ".", "j", "p", "2">>, <<"a", ".", "t", "i", "f">>,
      <<"a", ".", "v", "r", "t">>, <<"t", "i", "f", "f">> }
PathKinds == {"str", "Path"}            \* Union[str, CloudPath, Path]
FileStates == {"valid", "corrupted", "missing"}

\* indexes: None, or the list of the sub-bands to load (an int is a list of one).
NoIndexes == [given |-> FALSE, list |-> <<>>]
IndexLists(count) ==
    {NoIndexes}
        \cup { [given |-> TRUE, list |-> <<i>>] : i \in 1..count }
        \cup { [given |-> TRUE, list |-> l] : l \in { t \in (1..count) \X (1..count) : t[1] # t[2] } }

\* str.endswith
EndsWith(s, suffix) ==
    /\ Len(s) >= Len(suffix)
    /\ SubSeq(s, Len(s) - Len(suffix) + 1, Len(s)) = suffix

\* path.exists()
Exists(path) == path.file # "missing"

\* rasters.read: the raster I/O. A missing or a corrupted file raises
\* RasterioIOError; the array read keeps the sub-band indexes as its band
\* coordinate.
RastersRead(path, indexes) ==
    IF path.file # "valid"
    THEN [raised |-> "RasterioIOError", coords |-> <<>>]
    ELSE [raised |-> "none",
          coords |-> IF indexes.given THEN indexes.list
                     ELSE [i \in 1..path.count |-> i]]

\* The array as the raster I/O returned it.
KeepCoords(arr) == arr.coords

\* arr.assign_coords({"band": np.arange(start=1, stop=nof_bands + 1)})
AssignCoords(arr) ==
    LET nof_bands == Len(arr.coords)
    IN  [i \in 1..nof_bands |-> i]

\* except errors.RasterioIOError: the test that turns it into InvalidProductError
IsCorruptedFile(path) ==
    /\ path.kind # "str"
    /\ \/ EndsWith(path.name, <<"j", "p", "2">>)
       \/ (EndsWith(path.name, <<"t", "i", "f">>) /\ Exists(path))

read(path, indexes) ==
    LET arr == RastersRead(path, indexes)
    IN  IF arr.raised = "none"
        THEN [outcome |-> "ok", coords |-> AssignCoords(arr), named |-> <<>>]
        ELSE IF IsCorruptedFile(path)
        THEN [outcome |-> "InvalidProductError", coords |-> <<>>, named |-> path.name]
        ELSE [outcome |-> "RasterioIOError", coords |-> <<>>, named |-> <<>>]

NoRead == [path |-> [kind |-> "str", name |-> <<>>, file |-> "missing", count |-> 0],
           indexes |-> NoIndexes]
NoReadResult == [outcome |-> "none", coords |-> <<>>, named |-> <<>>]

ReadInputs ==
    /\ \E kind \in PathKinds, name \in FileNames, file \in FileStates,
          count \in 1..MaxRasterBands :
         \E indexes \in IndexLists(count) :
            rd_in = [path |-> [kind |-> kind, name |-> name, file |-> file, count |-> count],
                     indexes |-> indexes]
    /\ rd_out = NoReadResult

Read ==
    /\ rd_out = NoReadResult
    /\ rd_out' = read(rd_in.path, rd_in.indexes)
    /\ UNCHANGED rd_in

(***************************************************************************)
(* write, and the reads that run beside it                                 *)
(***************************************************************************)
Writers == {"w1", "w2"}     \* two concurrent write() calls to one output path

EnvUseDaskValues == {"unset", "1", "True", "0"}

\* str.lower
Lower(s) == IF s = "True" THEN "true" ELSE s

\* use_dask(): the environment variable, then the installed libraries
use_dask ==
    LET value == IF env_use_dask = "unset" THEN "1" ELSE env_use_dask
        _use_dask == Lower(value) \in {"1", "true"}
    IN  IF _use_dask THEN dask_installed ELSE FALSE

\* An attribute value: absent, a string (its characters) or a list of strings.
NoAttr == [kind |-> "none", chars |-> <<>>, items |-> <<>>]
StrAttr(chars) == [kind |-> "str", chars |-> chars, items |-> <<>>]
ListAttr(items) == [kind |-> "list", chars |-> <<>>, items |-> items]

LongNames ==
    { NoAttr, StrAttr(<<>>), StrAttr(<<"R">>), StrAttr(<<"R", " ", "N">>),
      ListAttr(<<<<"R">>, <<"N">>>>) }
BandCounts == {1, 2}        \* xds.rio.count

\* Python truthiness of an attribute value
Truthy(a) ==
    \/ a.kind = "str" /\ a.chars # <<>>
    \/ a.kind = "list" /\ a.items # <<>>

\* str.split(" ")
RECURSIVE Split(_)
Split(chars) ==
    IF \A i \in DOMAIN chars : chars[i] # " " THEN <<chars>>
    ELSE LET k == CHOOSE i \in DOMAIN chars :
                     chars[i] = " " /\ \A j \in 1..(i - 1) : chars[j] # " "
         IN  <<SubSeq(chars, 1, k - 1)>> \o Split(SubSeq(chars, k + 1, Len(chars)))

NoArray == [long_name |-> NoAttr, count |-> 1]

\* A write() call starts on an array of the caller's.
WriteCall(w) ==
    /\ w_pc[w] = "idle"
    /\ \E long_name \in LongNames, count \in BandCounts :
          w_xds' = [w_xds EXCEPT ![w] = [long_name |-> long_name, count |-> count]]
    /\ w_pc' = [w_pc EXCEPT ![w] = "lock"]
    /\ UNCHANGED <<env_use_dask, dask_installed, client, rio_lock,
                   w_lock, w_client, w_prev, r_pc>>

\* A lock that is never created.
NoLockFor(w) == "none"

\* lock = None; if use_dask(): try: lock = Lock("rio", client=get_client())
\*                             except ValueError: pass
LockFor(w) == IF use_dask /\ client THEN "rio" ELSE "none"

GetLock(w) ==
    /\ w_pc[w] = "lock"
    /\ w_lock' = [w_lock EXCEPT ![w] = LockFor(w)]
    /\ w_client' = [w_client EXCEPT ![w] = client]
    /\ w_pc' = [w_pc EXCEPT ![w] = "long_name"]
    /\ UNCHANGED <<env_use_dask, dask_installed, client, rio_lock, w_xds, w_prev, r_pc>>

\* previous_long_name = xds.attrs.get("long_name"); when it is truthy and the
\* array has several bands the long name is split into a list (a value that has
\* no split, a list, raises AttributeError, which is passed)
SetLongName(w) ==
    LET previous_long_name == w_xds[w].long_name
    IN  /\ w_pc[w] = "long_name"
        /\ w_prev' = [w_prev EXCEPT ![w] = previous_long_name]
        /\ w_xds' = [w_xds EXCEPT ![w].long_name =
                        IF Truthy(previous_long_name) /\ w_xds[w].count > 1
                               /\ previous_long_name.kind = "str"
                        THEN ListAttr(Split(previous_long_name.chars))
                        ELSE previous_long_name]
        /\ w_pc' = [w_pc EXCEPT ![w] = "write"]
        /\ UNCHANGED <<env_use_dask, dask_installed, client, rio_lock,
                       w_lock, w_client, r_pc>>

\* rasters.write(xds, path=path, lock=lock, ...): the raster write starts; with a
\* lock it waits for the lock and takes it, without one it starts at once.
RasterWriteBegin(w) ==
    /\ w_pc[w] = "write"
    /\ IF w_lock[w] = "rio"
       THEN rio_lock = "free" /\ rio_lock' = w
       ELSE UNCHANGED rio_lock
    /\ w_pc' = [w_pc EXCEPT ![w] = "writing"]
    /\ UNCHANGED <<env_use_dask, dask_installed, client,
                   w_xds, w_lock, w_client, w_prev, r_pc>>

\* The raster write ends and gives the lock back.
RasterWriteEnd(w) ==
    /\ w_pc[w] = "writing"
    /\ rio_lock' = IF rio_lock = w THEN "free" ELSE rio_lock
    /\ w_pc' = [w_pc EXCEPT ![w] = "restore"]
    /\ UNCHANGED <<env_use_dask, dask_installed, client,
                   w_xds, w_lock, w_client, w_prev, r_pc>>

\* The raster write raises: the exception leaves write() at line 250.
RasterWriteRaise(w) ==
    /\ w_pc[w] = "writing"
    /\ rio_lock' = IF rio_lock = w THEN "free" ELSE rio_lock
    /\ w_pc' = [w_pc EXCEPT ![w] = "raised"]
    /\ UNCHANGED <<env_use_dask, dask_installed, client,
                   w_xds, w_lock, w_client, w_prev, r_pc>>

\* if previous_long_name and xds.rio.count > 1: put the previous long name back
RestoreLongName(w) ==
    /\ w_pc[w] = "restore"
    /\ w_xds' = [w_xds EXCEPT ![w].long_name =
                    IF Truthy(w_prev[w]) /\ w_xds[w].count > 1
                    THEN w_prev[w] ELSE w_xds[w].long_name]
    /\ w_pc' = [w_pc EXCEPT ![w] = "done"]
    /\ UNCHANGED <<env_use_dask, dask_installed, client, rio_lock,
                   w_lock, w_client, w_prev, r_pc>>

\* The call is over (returned or raised): its locals are gone.
WriteReturn(w) ==
    /\ w_pc[w] \in {"done", "raised"}
    /\ w_pc' = [w_pc EXCEPT ![w] = "idle"]
    /\ w_xds' = [w_xds EXCEPT ![w] = NoArray]
    /\ w_lock' = [w_lock EXCEPT ![w] = "none"]
    /\ w_client' = [w_client EXCEPT ![w] = FALSE]
    /\ w_prev' = [w_prev EXCEPT ![w] = NoAttr]
    /\ UNCHANGED <<env_use_dask, dask_installed, client, rio_lock, r_pc>>

\* read(): the raster read of lines 176-188 starts; no lock is involved.
ReadBegin ==
    /\ r_pc = "idle"
    /\ r_pc' = "reading"
    /\ UNCHANGED <<env_use_dask, dask_installed, client, rio_lock,
                   w_pc, w_xds, w_lock, w_client, w_prev>>

ReadEnd ==
    /\ r_pc = "reading"
    /\ r_pc' = "idle"
    /\ UNCHANGED <<env_use_dask, dask_installed, client, rio_lock,
                   w_pc, w_xds, w_lock, w_client, w_prev>>

\* The caller starts a distributed client.
ClientStart ==
    /\ ~client
    /\ client' = TRUE
    /\ UNCHANGED <<env_use_dask, dask_installed, rio_lock,
                   w_pc, w_xds, w_lock, w_client, w_prev, r_pc>>

WriteInputs ==
    /\ env_use_dask \in EnvUseDaskValues
    /\ dask_installed \in BOOLEAN
    /\ client \in BOOLEAN
    /\ rio_lock = "free"
    /\ w_pc = [w \in Writers |-> "idle"]
    /\ w_xds = [w \in Writers |-> NoArray]
    /\ w_lock = [w \in Writers |-> "none"]
    /\ w_client = [w \in Writers |-> FALSE]
    /\ w_prev = [w \in Writers |-> NoAttr]
    /\ r_pc = "idle"

(***************************************************************************)
(* L3Product                                                               *)
(***************************************************************************)
NameChars == {"L", "1", "M"}
ProductNames == UNION { [1..n -> NameChars] : n \in 1..MaxNameLen }

\* sub in name (str.__contains__)
Contains(name, sub) ==
    \E i \in 1..(Len(name) - Len(sub) + 1) : SubSeq(name, i, i + Len(sub) - 1) = sub

\* OpticalBandNames (obn), those the Landsat-3 table names and two it does not
GREEN == "GREEN"
VRE_1 == "VRE_1"
VRE_2 == "VRE_2"
VRE_3 == "VRE_3"
NIR == "NIR"
NNIR == "NNIR"
OpticalBands == {GREEN, RED, VRE_1, VRE_2, VRE_3, NIR, NNIR, SWIR_2}

\* The table get_product_type() hands to map_bands
L1_MSS_BANDS ==
    [b \in {GREEN, RED, VRE_1, VRE_2, VRE_3, NIR, NNIR} |->
        CASE b = GREEN -> "4"
          [] b = RED -> "5"
          [] b \in {VRE_1, VRE_2, VRE_3} -> "6"
          [] b \in {NIR, NNIR} -> "7"]

\* A product before its type is known: no type, no band mapped.
NoBands == [b \in OpticalBands |-> "None"]

\* band_names.map_bands(table): registers the table, the later call winning
map_bands(band_names, table) ==
    [b \in OpticalBands |-> IF b \in DOMAIN table THEN table[b] ELSE band_names[b]]

\* has_band(band): the band is a key of the product's mapping table
has_band(band) == l3_band_names[band] # "None"

NoRequest == [op |-> "none", bands |-> {}, outcome |-> "none"]

\* A product object is made for a name; its type is not known yet.
L3Open ==
    /\ \E name \in ProductNames : l3_name' = name
    /\ l3_product_type' = "None"
    /\ l3_band_names' = NoBands
    /\ l3_typed' = "not called"
    /\ l3_last' = NoRequest

\* A get_product_type that registers the mapping before it looks at the name.
GetProductTypeMapsFirst ==
    /\ l3_band_names' = map_bands(l3_band_names, L1_MSS_BANDS)
    /\ IF Contains(l3_name, <<"L", "1">>)
       THEN l3_product_type' = "L1_MSS" /\ l3_typed' = "returned"
       ELSE l3_typed' = "InvalidProductError" /\ UNCHANGED l3_product_type
    /\ UNCHANGED <<l3_name, l3_last>>

\* L3Product.get_product_type
GetProductType ==
    IF Contains(l3_name, <<"L", "1">>)
    THEN /\ l3_product_type' = "L1_MSS"
         /\ l3_band_names' = map_bands(l3_band_names, L1_MSS_BANDS)
         /\ l3_typed' = "returned"
         /\ UNCHANGED <<l3_name, l3_last>>
    ELSE /\ l3_typed' = "InvalidProductError"
         /\ UNCHANGED <<l3_name, l3_product_type, l3_band_names, l3_last>>

\* The band sets a caller asks for: one band or two.
BandRequests == { r \in SUBSET OpticalBands : Cardinality(r) \in {1, 2} }

\* load(bands) / stack(bands): a band that is not in the mapping table fails the
\* whole call with a BandNotFoundError-kind error.
LoadOrStack ==
    /\ \E op \in {"load", "stack"}, bands \in BandRequests :
          l3_last' = [op |-> op, bands |-> bands,
                      outcome |-> IF \A b \in bands : has_band(b)
                                  THEN "ok" ELSE "BandNotFoundError"]
    /\ UNCHANGED <<l3_name, l3_product_type, l3_band_names, l3_typed>>

L3Inputs ==
    /\ l3_name \in ProductNames
    /\ l3_product_type = "None"
    /\ l3_band_names = NoBands
    /\ l3_typed = "not called"
    /\ l3_last = NoRequest

(***************************************************************************)
(* set_dem                                                                 *)
(*                                                                         *)
(* A string that holds a path is the sequence of its pieces between "/";   *)
(* an environment variable is unset or holds such a string.                *)
(***************************************************************************)
Unset == [set |-> FALSE, str |-> <<>>]
EnvStr(str) == [set |-> TRUE, str |-> str]

MERIT_DEM_SUB_DIR_PATH ==
    <<"GLOBAL", "MERIT_Hydrologically_Adjusted_Elevations", "MERIT_DEM.vrt">>

\* The dem_path arguments of the model: None, "", "data/dem.tif",
\* "./data/dem.tif", "data/other.tif", "data/missing.tif" and "data"
NoPath == [none |-> TRUE, str |-> <<>>]
PathArg(str) == [none |-> FALSE, str |-> str]
DemArgs ==
    { NoPath, PathArg(<<>>), PathArg(<<"data", "dem.tif">>),
      PathArg(<<".", "data", "dem.tif">>), PathArg(<<"data", "other.tif">>),
      PathArg(<<"data", "missing.tif">>), PathArg(<<"data">>) }

\* The files there can be on disk (data is a directory).
DemFiles == { <<"data", "dem.tif">>, <<"data", "other.tif">> }

\* if dem_path: None and the empty string are false
IsGiven(dem_path) == ~dem_path.none /\ dem_path.str # <<>>

IsPathPiece(piece) == piece # "." /\ piece # ""

\* AnyPath(dem_path), then str(): the pieces "." and "" are dropped
AnyPath(str) ==
    LET parts == SelectSeq(str, IsPathPiece)
    IN  IF parts = <<>> THEN <<".">> ELSE parts

\* dem_path.is_file()
is_file(path) == path \in fs_files

\* The local reference store.
DbDir == <<"mnt", "db">>

\* The values of TEST_USING_S3_DB: unset, "1" and "y";
\* os.environ.get(TEST_USING_S3_DB) not in ("Y", "YES", "TRUE", "T", "1")
S3FlagValues == {Unset, EnvStr(<<"1">>), EnvStr(<<"y">>)}
UsingS3Db(flag) ==
    flag.set /\ flag.str \in {<<"Y">>, <<"YES">>, <<"TRUE">>, <<"T">>, <<"1">>}

\* The values of S3_DB_URL_ROOT: unset, "" and "s3://bucket"
S3RootValues == {Unset, EnvStr(<<"">>), EnvStr(<<"s3:", "", "bucket">>)}

\* What a call leaves: how it ended, os.environ[DEM_PATH], and whether it
\* touched the file system.
Outcome(outcome, dem, io) == [outcome |-> outcome, dem |-> dem, io |-> io]

\* An explicit-path branch that registers the path without looking for the file.
SetDemExplicitUnchecked(dem_path) ==
    Outcome("returned", EnvStr(AnyPath(dem_path.str)), FALSE)

\* lines 42-45: dem_path = AnyPath(dem_path); is_file or FileNotFoundError;
\* os.environ[DEM_PATH] = str(dem_path)
SetDemExplicit(dem_path) ==
    LET path == AnyPath(dem_path.str)
    IN  IF ~is_file(path)
        THEN Outcome("FileNotFoundError", env_DEM_PATH, TRUE)
        ELSE Outcome("returned", EnvStr(path), TRUE)

\* lines 48-54: the default DEM of the local store; a store that cannot be found
\* (NotADirectoryError) is logged and passed
SetDemLocal ==
    IF db_dir_ok
    THEN Outcome("returned", EnvStr(DbDir \o MERIT_DEM_SUB_DIR_PATH), TRUE)
    ELSE Outcome("returned", env_DEM_PATH, TRUE)

\* A remote branch that builds and registers the reference before it looks for
\* the root.
SetDemRemoteUnchecked ==
    IF ~env_S3_DB_URL_ROOT.set
    THEN Outcome("Exception", EnvStr(<<"None">> \o MERIT_DEM_SUB_DIR_PATH), FALSE)
    ELSE Outcome("returned", EnvStr(env_S3_DB_URL_ROOT.str \o MERIT_DEM_SUB_DIR_PATH), FALSE)

\* lines 56-66: the root must be in os.environ; the reference is
\* "/".join([root, *MERIT_DEM_SUB_DIR_PATH])
SetDemRemote ==
    IF ~env_S3_DB_URL_ROOT.set
    THEN Outcome("Exception", env_DEM_PATH, FALSE)
    ELSE Outcome("returned", EnvStr(env_S3_DB_URL_ROOT.str \o MERIT_DEM_SUB_DIR_PATH), FALSE)

set_dem(dem_path) ==
    IF IsGiven(dem_path) THEN SetDemExplicit(dem_path)
    ELSE IF ~UsingS3Db(env_TEST_USING_S3_DB) THEN SetDemLocal
    ELSE SetDemRemote

NoDemCall ==
    [called |-> FALSE, dem_path |-> NoPath, before |-> Unset, flag |-> Unset,
     root |-> Unset, store |-> FALSE, outcome |-> "none", io |-> FALSE]

\* _test_core line 115: set_dem(dem_path)
SetDem ==
    \E dem_path \in DemArgs :
        LET res == set_dem(dem_path)
        IN  /\ env_DEM_PATH' = res.dem
            /\ dem_last' = [called |-> TRUE, dem_path |-> dem_path,
                            before |-> env_DEM_PATH, flag |-> env_TEST_USING_S3_DB,
                            root |-> env_S3_DB_URL_ROOT, store |-> db_dir_ok,
                            outcome |-> res.outcome, io |-> res.io]
            /\ UNCHANGED <<env_TEST_USING_S3_DB, env_S3_DB_URL_ROOT, env_SAR_DEF_RES,
                           fs_files, db_dir_ok>>

\* _test_core lines 155-157: a SAR product sets the default SAR resolution
SetSarDefRes ==
    /\ env_SAR_DEF_RES' = EnvStr(<<"1000.0">>)
    /\ UNCHANGED <<env_DEM_PATH, env_TEST_USING_S3_DB, env_S3_DB_URL_ROOT,
                   fs_files, db_dir_ok, dem_last>>

\* The run is configured between two calls: the S3 flag and root.
Configure ==
    /\ \E flag \in S3FlagValues, root \in S3RootValues :
          /\ env_TEST_USING_S3_DB' = flag
          /\ env_S3_DB_URL_ROOT' = root
    /\ UNCHANGED <<env_DEM_PATH, env_SAR_DEF_RES, fs_files, db_dir_ok, dem_last>>

DemInputs ==
    /\ env_DEM_PATH = Unset
    /\ env_TEST_USING_S3_DB \in S3FlagValues
    /\ env_S3_DB_URL_ROOT \in S3RootValues
    /\ env_SAR_DEF_RES = Unset
    /\ fs_files \in SUBSET DemFiles
    /\ db_dir_ok \in BOOLEAN
    /\ dem_last = NoDemCall

(***************************************************************************)
(* Specifications: one per operation, the others at rest                   *)
(***************************************************************************)
StackIdle == sd_in = NoCall /\ sd_out = NoResult
ReadIdle == rd_in = NoRead /\ rd_out = NoReadResult
WriteIdle ==
    /\ env_use_dask = "unset" /\ dask_installed = TRUE /\ client = FALSE
    /\ rio_lock = "free"
    /\ w_pc = [w \in Writers |-> "idle"]
    /\ w_xds = [w \in Writers |-> NoArray]
    /\ w_lock = [w \in Writers |-> "none"]
    /\ w_client = [w \in Writers |-> FALSE]
    /\ w_prev = [w \in Writers |-> NoAttr]
    /\ r_pc = "idle"

L3Idle ==
    /\ l3_name = <<"M">>
    /\ l3_product_type = "None"
    /\ l3_band_names = NoBands
    /\ l3_typed = "not called"
    /\ l3_last = NoRequest

DemIdle ==
    /\ env_DEM_PATH = Unset
    /\ env_TEST_USING_S3_DB = Unset
    /\ env_S3_DB_URL_ROOT = Unset
    /\ env_SAR_DEF_RES = Unset
    /\ fs_files = {}
    /\ db_dir_ok = TRUE
    /\ dem_last = NoDemCall

InitStack == StackInputs /\ ReadIdle /\ WriteIdle /\ L3Idle /\ DemIdle
NextStack == StackDict /\ UNCHANGED <<read_vars, write_vars, l3_vars, dem_vars>>
SpecStack == InitStack /\ [][NextStack]_vars

InitRead == ReadInputs /\ StackIdle /\ WriteIdle /\ L3Idle /\ DemIdle
NextRead == Read /\ UNCHANGED <<stack_vars, write_vars, l3_vars, dem_vars>>
SpecRead == InitRead /\ [][NextRead]_vars

InitWrite == WriteInputs /\ StackIdle /\ ReadIdle /\ L3Idle /\ DemIdle
NextWrite ==
    \/ \E w \in Writers : WriteCall(w) /\ UNCHANGED <<stack_vars, read_vars, l3_vars, dem_vars>>
    \/ \E w \in Writers : GetLock(w) /\ UNCHANGED <<stack_vars, read_vars, l3_vars, dem_vars>>
    \/ \E w \in Writers : SetLongName(w) /\ UNCHANGED <<stack_vars, read_vars, l3_vars, dem_vars>>
    \/ \E w \in Writers : RasterWriteBegin(w) /\ UNCHANGED <<stack_vars, read_vars, l3_vars, dem_vars>>
    \/ \E w \in Writers : RasterWriteEnd(w) /\ UNCHANGED <<stack_vars, read_vars, l3_vars, dem_vars>>
    \/ \E w \in Writers : RasterWriteRaise(w) /\ UNCHANGED <<stack_vars, read_vars, l3_vars, dem_vars>>
    \/ \E w \in Writers : RestoreLongName(w) /\ UNCHANGED <<stack_vars, read_vars, l3_vars, dem_vars>>
    \/ \E w \in Writers : WriteReturn(w) /\ UNCHANGED <<stack_vars, read_vars, l3_vars, dem_vars>>
    \/ ReadBegin /\ UNCHANGED <<stack_vars, read_vars, l3_vars, dem_vars>>
    \/ ReadEnd /\ UNCHANGED <<stack_vars, read_vars, l3_vars, dem_vars>>
    \/ ClientStart /\ UNCHANGED <<stack_vars, read_vars, l3_vars, dem_vars>>
SpecWrite == InitWrite /\ [][NextWrite]_vars

InitL3 == L3Inputs /\ StackIdle /\ ReadIdle /\ WriteIdle /\ DemIdle
NextL3 ==
    \/ L3Open /\ UNCHANGED <<stack_vars, read_vars, write_vars, dem_vars>>
    \/ GetProductType /\ UNCHANGED <<stack_vars, read_vars, write_vars, dem_vars>>
    \/ LoadOrStack /\ UNCHANGED <<stack_vars, read_vars, write_vars, dem_vars>>
SpecL3 == InitL3 /\ [][NextL3]_vars

InitDem == DemInputs /\ StackIdle /\ ReadIdle /\ WriteIdle /\ L3Idle
NextDem ==
    \/ SetDem /\ UNCHANGED <<stack_vars, read_vars, write_vars, l3_vars>>
    \/ SetSarDefRes /\ UNCHANGED <<stack_vars, read_vars, write_vars, l3_vars>>
    \/ Configure /\ UNCHANGED <<stack_vars, read_vars, write_vars, l3_vars>>
SpecDem == InitDem /\ [][NextDem]_vars

(***************************************************************************)
(* Properties of stack_dict                                                *)
(***************************************************************************)
Called == sd_out # NoResult

\* The layer of the returned stack, and the variable of the dataset, of a band.
OutLayer(band) == CHOOSE e \in {sd_out.stack[i] : i \in DOMAIN sd_out.stack} : e.band = band
InLayer(band) == CHOOSE e \in {sd_in.band_xds[i] : i \in DOMAIN sd_in.band_xds} : e.band = band
InBands == {sd_in.band_xds[i].band : i \in DOMAIN sd_in.band_xds}

IsReflectanceLike(band) == is_sat_band(band) \/ is_index(band)

\* C1: the band axis of the returned stack is ordered exactly as the requested
\* band list, whatever the order in which the bands were put into the dataset.
C1_StackOrderIsBands ==
    Called => [i \in DOMAIN sd_out.stack |-> sd_out.stack[i].band] = sd_in.bands

\* C2: with save_as_int on satellite or index bands whose non-missing values all
\* lie in [0, 1], the dtype is uint16 and every non-missing value of the stack is
\* the input value times 10000.
C2_IntStackIsScaled ==
    ( /\ Called
      /\ sd_in.save_as_int
      /\ \A b \in InBands : IsReflectanceLike(b)
      /\ \A b \in InBands : \A k \in Pixels :
            InLayer(b).data[k].nan \/ (0 <= InLayer(b).data[k].v /\ InLayer(b).data[k].v <= scale) )
    => /\ sd_out.dtype = "uint16"
       /\ \A b \in InBands : \A k \in Pixels :
            ~InLayer(b).data[k].nan
                => OutLayer(b).data[k] = Val(InLayer(b).data[k].v * scale)

\* The estimate below which the rounded estimate is below -0.1: -0.1005, as a
\* numerator over quantile_den.
FallbackLimit == round_min * quantile_den - (scale * quantile_den) \div (2 * round_nb)

\* C3 as stated: with save_as_int, every estimate strictly below -0.1 falls back
\* to float32 with a warning and no exception, and an estimate of -0.1 or more is
\* encoded as uint16.
C3_FallbackBelowThreshold ==
    (Called /\ sd_in.save_as_int /\ ~sd_out.stack_min.nan)
    => /\ sd_out.stack_min.num < round_min * quantile_den
            => (sd_out.dtype = "float32" /\ "keep_float32" \in sd_out.warnings /\ ~sd_out.raised)
       /\ sd_out.stack_min.num >= round_min * quantile_den => sd_out.dtype = "uint16"

\* C3 amended: the estimate is rounded to three decimals (halves to even) before
\* it is compared: with save_as_int, every estimate strictly below -0.1005 falls
\* back to float32 with a warning and no exception, and every estimate of -0.1005
\* or more (so also those in [-0.1005, -0.1)) is encoded as uint16.
C3_FallbackBelowRoundedThreshold ==
    (Called /\ sd_in.save_as_int /\ ~sd_out.stack_min.nan)
    => /\ sd_out.stack_min.num < FallbackLimit
            => (sd_out.dtype = "float32" /\ "keep_float32" \in sd_out.warnings /\ ~sd_out.raised)
       /\ sd_out.stack_min.num >= FallbackLimit
            => (sd_out.dtype = "uint16" /\ "keep_float32" \notin sd_out.warnings /\ ~sd_out.raised)

\* C3 witness: an estimate strictly between -0.1005 and -0.1 was encoded as uint16.
C3_Witness ==
    /\ Called /\ sd_in.save_as_int /\ ~sd_out.stack_min.nan
    /\ sd_out.stack_min.num < round_min * quantile_den
    /\ sd_out.stack_min.num >= FallbackLimit
    /\ sd_out.dtype = "uint16"

\* C9 as stated: on the integer path, every value of a band that is neither a
\* satellite band nor an index equals its input value, missing values apart
\* (they are filled with nodata).
C9_NativeBandsUnchanged ==
    (Called /\ sd_out.dtype = "uint16")
    => \A b \in InBands : ~IsReflectanceLike(b) =>
          \A k \in Pixels :
             OutLayer(b).data[k] =
                IF InLayer(b).data[k].nan THEN Val(sd_in.nodata * scale)
                ELSE InLayer(b).data[k]

\* C9 amended: on the integer path, every value of a band that is neither a
\* satellite band nor an index equals its input value, apart from missing
\* values (filled with nodata) and, when the 0.1-percentile estimate is negative,
\* negative values (clipped to zero like those of every other band).
C9_NativeBandsUnscaled ==
    (Called /\ sd_out.dtype = "uint16")
    => \A b \in InBands : ~IsReflectanceLike(b) =>
          \A k \in Pixels :
             OutLayer(b).data[k] =
                IF InLayer(b).data[k].nan THEN Val(sd_in.nodata * scale)
                ELSE IF IsNegative(sd_out.stack_min) /\ InLayer(b).data[k].v < 0 THEN Val(0)
                ELSE InLayer(b).data[k]

\* C9 witness: an integer-encoded stack of a satellite band and a slope band
\* whose value 0.5 is returned as it was.
C9_Witness ==
    /\ Called /\ sd_out.dtype = "uint16"
    /\ InBands = {RED, SLOPE}
    /\ \E k \in Pixels : InLayer(SLOPE).data[k] = Val(5000) /\ OutLayer(SLOPE).data[k] = Val(5000)

\* C11: whenever the returned dtype is uint16, no value of the returned stack
\* that comes from a non-missing input value is negative: either the float32
\* fallback was taken or every negative input value was clipped to zero.
C11_IntStackNonNegative ==
    (Called /\ sd_out.dtype = "uint16")
    => \A b \in InBands : \A k \in Pixels :
          ~InLayer(b).data[k].nan => OutLayer(b).data[k].v >= 0

(***************************************************************************)
(* Properties of read                                                      *)
(***************************************************************************)
ReadCalled == rd_out # NoReadResult

\* C4: a raster I/O failure on a corrupted file raises InvalidProductError
\* naming the path, whether the path is a string or a path object; any other
\* I/O failure (a file that does not exist) is re-raised unchanged.
C4_CorruptedRaisesInvalidProduct ==
    ReadCalled =>
        /\ rd_in.path.file = "corrupted"
              => (rd_out.outcome = "InvalidProductError" /\ rd_out.named = rd_in.path.name)
        /\ rd_in.path.file = "missing" => rd_out.outcome = "RasterioIOError"

\* C10: every successful read returns band coordinates 1, 2, ..., N, N being the
\* number of bands of the array, whatever sub-band indexes were asked for.
C10_DenseBandCoords ==
    (ReadCalled /\ rd_out.outcome = "ok")
    => /\ Len(rd_out.coords) =
              (IF rd_in.indexes.given THEN Len(rd_in.indexes.list) ELSE rd_in.path.count)
       /\ \A i \in 1..Len(rd_out.coords) : rd_out.coords[i] = i

\* C10 witness: the third and the second band of a file were read, in that
\* order, and came back numbered 1, 2.
C10_Witness ==
    /\ ReadCalled /\ rd_out.outcome = "ok"
    /\ rd_in.indexes = [given |-> TRUE, list |-> <<3, 2>>]
    /\ rd_out.coords = <<1, 2>>

(***************************************************************************)
(* Properties of write                                                     *)
(***************************************************************************)
InRasterWrite(w) == w_pc[w] = "writing"

C12_LongNameUnchanged ==
    \A w \in Writers :
        w_pc[w] \in {"done", "raised"} => w_xds[w].long_name = w_prev[w]

(***************************************************************************)
(* Properties of L3Product                                                 *)
(***************************************************************************)
\* C6: get_product_type() on a name that holds no "L1" raises
\* InvalidProductError and leaves product_type unset and the band mapping
\* unregistered: no band is supported, and no load or stack succeeds afterwards.
C6_UnknownNameLeavesProductUnusable ==
    /\ (l3_typed # "not called" /\ ~Contains(l3_name, <<"L", "1">>))
          => l3_typed = "InvalidProductError"
    /\ l3_typed = "InvalidProductError"
          => /\ l3_product_type = "None"
             /\ l3_band_names = NoBands
             /\ \A b \in OpticalBands : ~has_band(b)
             /\ l3_last.op \in {"load", "stack"} => l3_last.outcome = "BandNotFoundError"

\* C6 witness: the name holds an "L" and a "1" but no "L1", get_product_type()
\* raised, and a stack of a band of the Landsat-3 table was refused afterwards.
C6_Witness ==
    /\ l3_name = <<"1", "L", "M">>
    /\ l3_typed = "InvalidProductError"
    /\ l3_last = [op |-> "stack", bands |-> {RED}, outcome |-> "BandNotFoundError"]

(***************************************************************************)
(* Properties of set_dem                                                   *)
(***************************************************************************)
\* C7: set_dem with an explicit path that is not an existing file raises
\* FileNotFoundError and leaves DEM_PATH as it was; with an explicit path that is
\* an existing file it sets DEM_PATH to that path, and DEM_PATH keeps it through
\* every later operation until the next set_dem call.
C7_ExplicitDemRegistered ==
    (dem_last.called /\ IsGiven(dem_last.dem_path))
    => /\ AnyPath(dem_last.dem_path.str) \notin fs_files
            => (dem_last.outcome = "FileNotFoundError" /\ env_DEM_PATH = dem_last.before)
       /\ AnyPath(dem_last.dem_path.str) \in fs_files
            => /\ dem_last.outcome = "returned"
               /\ env_DEM_PATH.set
               /\ AnyPath(env_DEM_PATH.str) = AnyPath(dem_last.dem_path.str)

\* C7 witness: "./data/dem.tif" was registered, over another DEM, by a call
\* that has been followed by another operation.
C7_Witness ==
    /\ dem_last.called
    /\ dem_last.dem_path = PathArg(<<".", "data", "dem.tif">>)
    /\ dem_last.before = EnvStr(<<"data", "other.tif">>)
    /\ env_DEM_PATH = EnvStr(<<"data", "dem.tif">>)
    /\ env_SAR_DEF_RES.set

\* C8: set_dem without an explicit path, in remote mode: with no
\* S3_DB_URL_ROOT it fails before any I/O and before DEM_PATH is modified; with
\* one, DEM_PATH is the remote reference built from that root.
C8_RemoteDemNeedsRoot ==
    (dem_last.called /\ ~IsGiven(dem_last.dem_path) /\ UsingS3Db(dem_last.flag))
    => /\ ~dem_last.root.set
            => /\ dem_last.outcome = "Exception"
               /\ ~dem_last.io
               /\ env_DEM_PATH = dem_last.before
       /\ dem_last.root.set
            => /\ dem_last.outcome = "returned"
               /\ env_DEM_PATH = EnvStr(dem_last.root.str \o MERIT_DEM_SUB_DIR_PATH)

\* C8 witness: in remote mode with no root, a call without a path failed and
\* the DEM registered before it is still the one registered.
C8_Witness ==
    /\ dem_last.called /\ dem_last.dem_path = NoPath
    /\ UsingS3Db(dem_last.flag) /\ ~dem_last.root.set
    /\ dem_last.outcome = "Exception"
    /\ dem_last.before = EnvStr(<<"data", "dem.tif">>)
    /\ env_DEM_PATH = EnvStr(<<"data", "dem.tif">>)

\* The default elevation dataset of the local reference store.
LocalDefaultDem == EnvStr(DbDir \o MERIT_DEM_SUB_DIR_PATH)

\* C13: after any sequence of set_dem calls, whenever the last call had no
\* explicit path, ran in local (non-remote) mode and returned normally,
\* DEM_PATH refers to the default elevation dataset of the local reference
\* store, never to a DEM registered by an earlier call.
C13_LocalDefaultDemRegistered ==
    ( /\ dem_last.called
      /\ ~IsGiven(dem_last.dem_path)
      /\ ~UsingS3Db(dem_last.flag)
      /\ dem_last.outcome = "returned" )
    => env_DEM_PATH = LocalDefaultDem

====
